---- MODULE Spec2Model ----
(***************************************************************************)
(* A model of aws-sso-config (src/main.go): token selection from the SSO   *)
(* cache, paginated account and role enumeration, profile-name derivation  *)
(* and reconciliation of the AWS config file.                              *)
(*                                                                         *)
(* Strings that the program inspects character by character (account       *)
(* names, profile names, section names, start URLs) are sequences of       *)
(* one-character strings.  Strings that are only compared for equality     *)
(* (ids, regions, role names, key names, key values) are TLA+ strings.     *)
(*                                                                         *)
(* The ini file is a function from section names to sections; a section    *)
(* is a function from key names to values.                                 *)
(***************************************************************************)
EXTENDS Integers, Sequences, FiniteSets, TLC

VARIABLES
    pc,         \* position of main: the stage about to run, or the exit
    stages,     \* the stages main has entered, in order
    opts,       \* the global Options
    cacheDir,   \* ~/.aws/sso/cache: readable or not, and its entries
    token,      \* the SSOToken returned by readSSOToken, NoToken before
    region,     \* main's region
    sso,        \* the remote service: account pages and role pages
    nextToken,  \* listSSOAccounts: the continuation token of the next request
    requests,   \* the NextToken of every ListAccounts request made so far
    accounts,   \* the accounts accumulated by listSSOAccounts
    disk,       \* the content of ~/.aws/config
    origDisk,   \* its content when the program started
    saveCalls,  \* the number of cfg.SaveTo calls made
    derived     \* an account name followed by its successive derivations

vars == <<pc, stages, opts, cacheDir, token, region, sso, nextToken, requests,
          accounts, disk, origDisk, saveCalls, derived>>

(***************************************************************************)
(* Bounds of the model.                                                    *)
(***************************************************************************)
MaxLen == 3
MaxAccounts == 2
MaxFiles == 2
MaxModTime == 4
MaxPages == 2
MaxRolePages == 2

(***************************************************************************)
(* String helpers.                                                         *)
(***************************************************************************)
Alphabet == {"A", "a", "1", " ", "\t", "-", "!"}

Whitespace == {" ", "\t"}

RECURSIVE SeqsUpTo(_, _)
SeqsUpTo(S, n) ==
    IF n = 0 THEN {<<>>}
    ELSE LET shorter == SeqsUpTo(S, n - 1)
         IN  shorter \cup {Append(s, x) : s \in shorter, x \in S}

RECURSIVE TrimLeft(_)
TrimLeft(s) ==
    IF s # <<>> /\ Head(s) \in Whitespace THEN TrimLeft(Tail(s)) ELSE s

RECURSIVE TrimRight(_)
TrimRight(s) ==
    IF s # <<>> /\ s[Len(s)] \in Whitespace
    THEN TrimRight(SubSeq(s, 1, Len(s) - 1))
    ELSE s

TrimSpace(s) == TrimRight(TrimLeft(s))

LowerRune(c) == IF c = "A" THEN "a" ELSE c

ToLower(s) == [i \in 1..Len(s) |-> LowerRune(s[i])]

ReplaceAllSpaces(s) == [i \in 1..Len(s) |-> IF s[i] = " " THEN "-" ELSE s[i]]

\* The letters a-z and the digits 0-9 of the alphabet.
LowerLetters == {"a"}

Digits == {"1"}

KeepRuneTab(c) == c \in LowerLetters \cup Digits \cup {"-", "\t"}

\* Lines 231-234: the runes that strings.Map keeps.
KeepRune(c) == c \in LowerLetters \cup Digits \cup {"-"}

RECURSIVE MapKeep(_)
MapKeep(s) ==
    IF s = <<>> THEN <<>>
    ELSE IF KeepRune(Head(s)) THEN <<Head(s)>> \o MapKeep(Tail(s))
    ELSE MapKeep(Tail(s))

SanitizeName(name) == MapKeep(ReplaceAllSpaces(ToLower(TrimSpace(name))))

PrefixWithDash(profilePrefix) ==
    IF profilePrefix # <<>> THEN profilePrefix \o <<"-">> ELSE profilePrefix

\* Lines 222-237: the profile name of an account name.
ProfileName(profilePrefix, name) ==
    PrefixWithDash(profilePrefix) \o SanitizeName(name)

(***************************************************************************)
(* The ini file (gopkg.in/ini.v1) as main.go uses it.                      *)
(***************************************************************************)
DEFAULT == <<"D", "E", "F", "A", "U", "L", "T">>

NoKeys == [k \in {} |-> ""]

\* The name a section is looked up under: the empty name is the default section.
SectionKey(name) == IF name = <<>> THEN DEFAULT ELSE name

\* ini.Load: the default section always exists in a loaded file.
Load(file) ==
    IF DEFAULT \in DOMAIN file THEN file
    ELSE [n \in DOMAIN file \cup {DEFAULT} |->
             IF n = DEFAULT THEN NoKeys ELSE file[n]]

\* cfg.SaveTo: a default section without keys writes nothing.
SaveTo(cfg) ==
    LET kept == {n \in DOMAIN cfg : n # DEFAULT \/ DOMAIN cfg[n] # {}}
    IN  [n \in kept |-> cfg[n]]

HasSection(cfg, name) == SectionKey(name) \in DOMAIN cfg

HasKey(section, key) == key \in DOMAIN section

DeleteSection(cfg, name) ==
    [n \in DOMAIN cfg \ {SectionKey(name)} |-> cfg[n]]

\* section.Key(key).SetValue(value): the key is created when missing.
SetValue(section, key, value) ==
    [k \in DOMAIN section \cup {key} |-> IF k = key THEN value ELSE section[k]]

(***************************************************************************)
(* updateAWSConfig.                                                        *)
(***************************************************************************)
DryRunIgnored(o) == FALSE

DryRun(o) == o.DryRun

MatchesIgnoringRole(section, account, startURL, rgn) ==
    /\ HasKey(section, "sso_start_url") /\ HasKey(section, "sso_account_id")
    /\ HasKey(section, "sso_role_name") /\ HasKey(section, "region")
    /\ section["sso_start_url"] = startURL
    /\ section["sso_account_id"] = account.AccountId
    /\ section["region"] = rgn

MatchesWithSsoRegion(section, account, startURL, rgn) ==
    /\ HasKey(section, "sso_start_url") /\ HasKey(section, "sso_account_id")
    /\ HasKey(section, "sso_role_name") /\ HasKey(section, "region")
    /\ HasKey(section, "sso_region")
    /\ section["sso_start_url"] = startURL
    /\ section["sso_account_id"] = account.AccountId
    /\ section["sso_role_name"] = opts.RoleName
    /\ section["region"] = rgn
    /\ section["sso_region"] = rgn

\* The test of lines 241-247 on one section.
SectionMatches(section, account, startURL, rgn) ==
    /\ HasKey(section, "sso_start_url") /\ HasKey(section, "sso_account_id")
    /\ HasKey(section, "sso_role_name") /\ HasKey(section, "region")
    /\ section["sso_start_url"] = startURL
    /\ section["sso_account_id"] = account.AccountId
    /\ section["sso_role_name"] = opts.RoleName
    /\ section["region"] = rgn

\* cfg.DeleteSection for every name of a set.
RECURSIVE DeleteSections(_, _)
DeleteSections(cfg, names) ==
    IF names = {} THEN cfg
    ELSE LET n == CHOOSE x \in names : TRUE
         IN  DeleteSections(DeleteSection(cfg, n), names \ {n})

\* The inner loop of removal mode for one account (lines 240-256): every
\* section of cfg.Sections() that passes the test is deleted, unless this is
\* a dry run.
RemoveMatching(cfg, account, startURL, rgn) ==
    LET hit == {n \in DOMAIN cfg : SectionMatches(cfg[n], account, startURL, rgn)}
    IN  IF ~DryRun(opts) THEN DeleteSections(cfg, hit) ELSE cfg

WriteKeysIfMissing(section, account, startURL, rgn) ==
    LET new == [sso_start_url |-> startURL, sso_region |-> rgn,
                sso_account_id |-> account.AccountId,
                sso_role_name |-> opts.RoleName, region |-> rgn]
    IN  [k \in DOMAIN section \cup DOMAIN new |->
            IF k \in DOMAIN section THEN section[k] ELSE new[k]]

WriteKeysOnly(section, account, startURL, rgn) ==
    [sso_start_url |-> startURL, sso_region |-> rgn,
     sso_account_id |-> account.AccountId,
     sso_role_name |-> opts.RoleName, region |-> rgn]

\* Lines 280-284: the five keys are set on the section.
WriteKeys(section, account, startURL, rgn) ==
    LET s1 == SetValue(section, "sso_start_url", startURL)
        s2 == SetValue(s1, "sso_region", rgn)
        s3 == SetValue(s2, "sso_account_id", account.AccountId)
        s4 == SetValue(s3, "sso_role_name", opts.RoleName)
    IN  SetValue(s4, "region", rgn)

\* The loop over the accounts (lines 226-285), from account i on.
RECURSIVE AccountLoop(_, _, _, _, _, _)
AccountLoop(cfg, accts, i, startURL, rgn, prefix) ==
    IF i > Len(accts) THEN [cfg |-> cfg, err |-> FALSE]
    ELSE LET account     == accts[i]
             profileName == prefix \o SanitizeName(account.AccountName)
         IN  IF opts.Remove
             THEN AccountLoop(RemoveMatching(cfg, account, startURL, rgn),
                              accts, i + 1, startURL, rgn, prefix)
             ELSE IF DryRun(opts)
             THEN AccountLoop(cfg, accts, i + 1, startURL, rgn, prefix)
             ELSE IF ~HasSection(cfg, profileName) /\ profileName = <<>>
             THEN [cfg |-> cfg, err |-> TRUE]   \* cfg.NewSection fails
             ELSE LET name    == SectionKey(profileName)
                      section == IF HasSection(cfg, profileName)
                                 THEN cfg[name] ELSE NoKeys
                      written == WriteKeys(section, account, startURL, rgn)
                  IN  AccountLoop(
                          [n \in DOMAIN cfg \cup {name} |->
                              IF n = name THEN written ELSE cfg[n]],
                          accts, i + 1, startURL, rgn, prefix)

\* updateAWSConfig on the file `file`; loadOk and saveOk say whether ini.Load
\* and cfg.SaveTo succeed.  The result is the file afterwards, whether an
\* error is returned, and the number of SaveTo calls.
UpdateAWSConfigRun(file, accts, startURL, rgn, profilePrefix, loadOk, saveOk) ==
    IF ~loadOk THEN [disk |-> file, err |-> TRUE, saves |-> 0]
    ELSE LET loop == AccountLoop(Load(file), accts, 1, startURL, rgn,
                                 PrefixWithDash(profilePrefix))
         IN  IF loop.err THEN [disk |-> file, err |-> TRUE, saves |-> 0]
             ELSE IF DryRun(opts) THEN [disk |-> file, err |-> FALSE, saves |-> 0]
             ELSE IF saveOk THEN [disk |-> SaveTo(loop.cfg), err |-> FALSE, saves |-> 1]
             ELSE [disk |-> file, err |-> TRUE, saves |-> 1]

ContinueAlways(err, next) == next

\* main: a stage's error ends the run with os.Exit(1).
ExitOnError(err, next) == IF err THEN "exit1" ELSE next

\* main, lines 77-93: the reconciliation stage and the exit.
updateAWSConfig ==
    /\ pc = "updateAWSConfig"
    /\ \E loadOk, saveOk \in BOOLEAN :
          LET r == UpdateAWSConfigRun(disk, accounts, token.StartURL, region,
                                      opts.ProfilePrefix, loadOk, saveOk)
          IN  /\ disk' = r.disk
              /\ saveCalls' = saveCalls + r.saves
              /\ pc' = ExitOnError(r.err, "exit0")
    /\ stages' = Append(stages, "updateAWSConfig")
    /\ UNCHANGED <<opts, cacheDir, token, region, sso, nextToken, requests,
                   accounts, origDisk, derived>>

(***************************************************************************)
(* Inputs of the reconciliation stage.                                     *)
(***************************************************************************)
Url1 == <<"x", "y">>
Url2 == <<"y">>

Account(id, name) == [AccountId |-> id, AccountName |-> name]

\* Two accounts whose names derive the same profile name, and one whose name
\* derives the empty name.
CfgAccounts ==
    { Account("111", <<"A", " ", "a">>),
      Account("222", <<"a", "-", "a">>),
      Account("333", <<"!">>) }

FiveKeys == {"sso_start_url", "sso_region", "sso_account_id", "sso_role_name", "region"}

\* A section as a run with start URL Url1, region r1 and role Admin writes it
\* for the account id, with one more key of the user's.
Managed(id) ==
    [sso_start_url |-> Url1, sso_region |-> "r1", sso_account_id |-> id,
     sso_role_name |-> "Admin", region |-> "r1", output |-> "json"]

OtherValue(k) ==
    CASE k = "sso_start_url"  -> Url2
      [] k = "sso_region"     -> "r2"
      [] k = "sso_account_id" -> "999"
      [] k = "sso_role_name"  -> "admin"
      [] k = "region"         -> "r2"

Without(section, k) == [j \in DOMAIN section \ {k} |-> section[j]]

SectionVariants ==
    UNION { {Managed(id)}
            \cup {Without(Managed(id), k) : k \in FiveKeys}
            \cup {[Managed(id) EXCEPT ![k] = OtherValue(k)] : k \in FiveKeys}
          : id \in {"111", "222"} }

NameAA  == <<"a", "-", "a">>
NamePAA == <<"p", "-", "a", "-", "a">>

\* The config files: top-level keys or none, and the sections a-a and p-a-a,
\* each absent or one of the variants.
ConfigFiles ==
    { [n \in ({DEFAULT} \cap top) \cup {NameAA : x \in aa} \cup {NamePAA : x \in paa} |->
          IF n = DEFAULT THEN Managed("111")
          ELSE IF n = NameAA THEN (CHOOSE x \in aa : TRUE)
          ELSE (CHOOSE x \in paa : TRUE)]
      : top \in {{}, {DEFAULT}},
        aa  \in {{}} \cup {{v} : v \in SectionVariants},
        paa \in {{}} \cup {{v} : v \in SectionVariants} }

NoToken == [AccessToken |-> 0, Region |-> "", StartURL |-> <<>>]

NoService == [pages |-> <<>>, roles |-> <<>>]

NoCache == [ok |-> FALSE, files |-> <<>>]

\* The reconciliation stage on its own: main is about to call updateAWSConfig.
InitCfg ==
    /\ pc = "updateAWSConfig"
    /\ stages = <<>>
    /\ opts \in [DryRun : BOOLEAN, Remove : BOOLEAN, RoleName : {"Admin"},
                 StartDomain : {<<>>}, ProfilePrefix : {<<>>, <<"p">>},
                 Region : {""}]
    /\ cacheDir = NoCache
    /\ token = [AccessToken |-> 1, Region |-> "r1", StartURL |-> Url1]
    /\ region = "r1"
    /\ sso = NoService
    /\ nextToken = 0
    /\ requests = <<>>
    /\ accounts \in SeqsUpTo(CfgAccounts, MaxAccounts)
    /\ disk \in ConfigFiles
    /\ origDisk = disk
    /\ saveCalls = 0
    /\ derived = <<>>

NextCfg == updateAWSConfig

SpecCfg == InitCfg /\ [][NextCfg]_vars

(***************************************************************************)
(* Properties of the reconciliation stage (SpecCfg).                       *)
(***************************************************************************)
ApplySucceeded == pc = "exit0" /\ ~opts.Remove /\ ~opts.DryRun

RemoveSucceeded == pc = "exit0" /\ opts.Remove /\ ~opts.DryRun

\* The section of the file that the program reaches under the profile name
\* of account i (the default section for the empty name).
SectionOf(i) == SectionKey(ProfileName(opts.ProfilePrefix, accounts[i].AccountName))

WrittenSections == {SectionOf(i) : i \in DOMAIN accounts}

\* The last account of the list that derives the same name as account i.
LastWithNameOf(i) ==
    CHOOSE j \in DOMAIN accounts :
        /\ SectionOf(j) = SectionOf(i)
        /\ \A h \in DOMAIN accounts : SectionOf(h) = SectionOf(i) => h <= j

\* The four identifying values of a section are those of the run and of
\* some account of the list.
Identified(section) ==
    \E i \in DOMAIN accounts :
        /\ {"sso_start_url", "sso_account_id", "sso_role_name", "region"}
               \subseteq DOMAIN section
        /\ section["sso_start_url"] = token.StartURL
        /\ section["sso_account_id"] = accounts[i].AccountId
        /\ section["sso_role_name"] = opts.RoleName
        /\ section["region"] = region

\* C1: with DryRun set, the config file keeps the content it had before the
\* call and no save is performed, in removal mode and in apply mode.
C1_DryRunKeepsFile ==
    opts.DryRun => disk = origDisk /\ saveCalls = 0

\* A dry run in removal mode has returned, and a section of the file matches.
C1_Witness ==
    /\ pc = "exit0" /\ opts.DryRun /\ opts.Remove
    /\ \E n \in DOMAIN origDisk : Identified(origDisk[n])

\* C2: after a successful apply, every account has its section with the five
\* keys set to the run's values, the account id being that of the last
\* account deriving the name; from an empty file the sections of the saved
\* file are exactly one per distinct derived name.
C2_ApplyWritesProfiles ==
    ApplySucceeded =>
        /\ \A i \in DOMAIN accounts :
              /\ SectionOf(i) \in DOMAIN disk
              /\ FiveKeys \subseteq DOMAIN disk[SectionOf(i)]
              /\ disk[SectionOf(i)]["sso_start_url"] = token.StartURL
              /\ disk[SectionOf(i)]["sso_region"] = region
              /\ disk[SectionOf(i)]["sso_account_id"] = accounts[LastWithNameOf(i)].AccountId
              /\ disk[SectionOf(i)]["sso_role_name"] = opts.RoleName
              /\ disk[SectionOf(i)]["region"] = region
        /\ DOMAIN origDisk = {} =>
              /\ DOMAIN disk = WrittenSections
              /\ Cardinality(DOMAIN disk) =
                    Cardinality({ProfileName(opts.ProfilePrefix, accounts[i].AccountName) :
                                    i \in DOMAIN accounts})
              /\ \A n \in DOMAIN disk : DOMAIN disk[n] = FiveKeys

\* Two accounts with different ids derived one name, and the section existed
\* with another account id and another role.
C2_Witness ==
    /\ ApplySucceeded
    /\ \E i, j \in DOMAIN accounts :
          /\ i < j /\ SectionOf(i) = SectionOf(j)
          /\ accounts[i].AccountId # accounts[j].AccountId
          /\ SectionOf(i) \in DOMAIN origDisk
          /\ "sso_role_name" \in DOMAIN origDisk[SectionOf(i)]
          /\ origDisk[SectionOf(i)]["sso_role_name"] # opts.RoleName

\* C3: after a successful removal, a section of the original file is absent
\* exactly when its four identifying values are the run's and an account's;
\* no section is created or changed.
C3_RemoveExactlyIdentified ==
    RemoveSucceeded =>
        /\ \A n \in DOMAIN origDisk : n \notin DOMAIN disk <=> Identified(origDisk[n])
        /\ DOMAIN disk \subseteq DOMAIN origDisk
        /\ \A n \in DOMAIN disk : disk[n] = origDisk[n]

\* One section was removed and one that differs in the role name only stayed.
C3_Witness ==
    /\ RemoveSucceeded
    /\ \E n \in DOMAIN origDisk : n \notin DOMAIN disk
    /\ \E n \in DOMAIN disk, i \in DOMAIN accounts :
          /\ DOMAIN disk[n] = DOMAIN Managed("111")
          /\ disk[n] = [Managed(accounts[i].AccountId) EXCEPT !["sso_role_name"] = "admin"]

\* C4: after a successful apply, no section is deleted, a section that is
\* not the section of an account is as it was, and in a written section the
\* keys other than the five keep their values.
C4_ApplyKeepsOthers ==
    ApplySucceeded =>
        /\ DOMAIN origDisk \subseteq DOMAIN disk
        /\ \A n \in DOMAIN origDisk :
              /\ n \notin WrittenSections => disk[n] = origDisk[n]
              /\ \A k \in DOMAIN origDisk[n] \ FiveKeys :
                    k \in DOMAIN disk[n] /\ disk[n][k] = origDisk[n][k]

\* A section with a key of the user's was written, and another section that
\* matches the run's values was not the section of any account.
C4_Witness ==
    /\ ApplySucceeded
    /\ \E n \in DOMAIN origDisk \cap WrittenSections :
          "output" \in DOMAIN origDisk[n] /\ disk[n] # origDisk[n]
    /\ \E n \in DOMAIN origDisk \ WrittenSections : Identified(origDisk[n])

\* C5 as stated: a removed section has all five keys, sso_region included,
\* matching the run.
C5_RemovedHadFiveKeys ==
    RemoveSucceeded =>
        \A n \in DOMAIN origDisk \ DOMAIN disk :
            /\ Identified(origDisk[n])
            /\ "sso_region" \in DOMAIN origDisk[n]
            /\ origDisk[n]["sso_region"] = region

\* C5 amended: a removed section has the four keys sso_start_url,
\* sso_account_id, sso_role_name and region matching the run; sso_region is
\* not consulted, so a section with the four matching is removed also when
\* sso_region is missing or differs.
C5_RemovedHadFourKeys ==
    RemoveSucceeded =>
        /\ \A n \in DOMAIN origDisk \ DOMAIN disk : Identified(origDisk[n])
        /\ \A n \in DOMAIN origDisk :
              /\ Identified(origDisk[n])
              /\ \/ "sso_region" \notin DOMAIN origDisk[n]
                 \/ origDisk[n]["sso_region"] # region
              => n \notin DOMAIN disk

\* A section without sso_region and one with another sso_region were removed.
C5_Witness ==
    /\ RemoveSucceeded
    /\ \E n, m \in DOMAIN origDisk \ DOMAIN disk :
          /\ "sso_region" \notin DOMAIN origDisk[n]
          /\ "sso_region" \in DOMAIN origDisk[m]
          /\ origDisk[m]["sso_region"] # region

(***************************************************************************)
(* readSSOToken.                                                           *)
(*                                                                         *)
(* An entry of the cache directory is one of: "other" (its name does not   *)
(* end in .json), "unreadable" (os.ReadFile fails), "malformed"            *)
(* (json.Unmarshal fails), "nostat" (os.Stat fails) and "ok".  ModTime is  *)
(* the modification time in half seconds since the epoch; the access token *)
(* of a file is its position in the directory.                             *)
(***************************************************************************)
Contains(s, sub) ==
    \E k \in 1..(Len(s) + 1) :
        /\ k + Len(sub) - 1 <= Len(s)
        /\ SubSeq(s, k, k + Len(sub) - 1) = sub

\* ModTime().Unix(): whole seconds.
Unix(t) == t \div 2

NewerOrSame(seconds, latestModTime) == seconds >= latestModTime

\* Line 124: the comparison with the latest time seen so far.
Newer(seconds, latestModTime) == seconds > latestModTime

\* The loop of lines 106-129 from entry i on; selected is the position of
\* selectedFile (0 for "") and latest is latestModTime.
RECURSIVE ScanCache(_, _, _, _)
ScanCache(files, i, selected, latest) ==
    IF i > Len(files) THEN selected
    ELSE LET file == files[i]
         IN  IF file.kind \in {"other", "unreadable", "malformed"}
             THEN ScanCache(files, i + 1, selected, latest)
             ELSE IF opts.StartDomain # <<>> /\ ~Contains(file.StartURL, opts.StartDomain)
             THEN ScanCache(files, i + 1, selected, latest)
             ELSE IF file.kind = "ok" /\ Newer(Unix(file.ModTime), latest)
             THEN ScanCache(files, i + 1, i, Unix(file.ModTime))
             ELSE ScanCache(files, i + 1, selected, latest)

\* readSSOToken: the token of the selected file, or an error.
ReadSSOToken(dir) ==
    IF ~dir.ok THEN [err |-> TRUE, token |-> NoToken]
    ELSE LET selected == ScanCache(dir.files, 1, 0, 0)
         IN  IF selected = 0 THEN [err |-> TRUE, token |-> NoToken]
             ELSE [err |-> FALSE,
                   token |-> [AccessToken |-> selected,
                              Region      |-> dir.files[selected].Region,
                              StartURL    |-> dir.files[selected].StartURL]]

\* main, lines 51-60: token resolution and the choice of the region.
readSSOToken ==
    /\ pc = "readSSOToken"
    /\ LET r == ReadSSOToken(cacheDir)
       IN  /\ token' = r.token
           /\ region' = IF r.err THEN region
                        ELSE IF opts.Region # "" THEN opts.Region
                        ELSE r.token.Region
           /\ pc' = ExitOnError(r.err, "LoadDefaultConfig")
    /\ stages' = Append(stages, "readSSOToken")
    /\ UNCHANGED <<opts, cacheDir, sso, nextToken, requests, accounts, disk,
                   origDisk, saveCalls, derived>>

CacheFile(kind, url, t) ==
    [kind |-> kind, StartURL |-> url, ModTime |-> t, Region |-> "r1"]

\* The entries that are skipped before their time is read carry the greatest
\* time and a start URL that contains every start domain tried.
CacheFiles ==
    {CacheFile(k, Url1, MaxModTime) : k \in {"other", "unreadable", "malformed"}}
    \cup {CacheFile("nostat", u, MaxModTime) : u \in {Url1, Url2, <<>>}}
    \cup {CacheFile("ok", u, t) : u \in {Url1, Url2, <<>>}, t \in 0..MaxModTime}

StartDomains == {<<>>, <<"y">>, <<"x">>, <<"y", "x">>}

\* Token resolution on its own.
InitToken ==
    /\ pc = "readSSOToken"
    /\ stages = <<>>
    /\ opts \in [DryRun : {FALSE}, Remove : {FALSE}, RoleName : {"Admin"},
                 StartDomain : StartDomains, ProfilePrefix : {<<>>},
                 Region : {""}]
    /\ cacheDir \in [ok : BOOLEAN, files : SeqsUpTo(CacheFiles, MaxFiles)]
    /\ token = NoToken
    /\ region = ""
    /\ sso = NoService
    /\ nextToken = 0
    /\ requests = <<>>
    /\ accounts = <<>>
    /\ disk = NoKeys
    /\ origDisk = disk
    /\ saveCalls = 0
    /\ derived = <<>>

NextTokenStage == readSSOToken

SpecToken == InitToken /\ [][NextTokenStage]_vars

TokenReturned == pc \in {"LoadDefaultConfig", "exit1"}

TokenFailed == pc = "exit1"

Files == cacheDir.files

\* The readable, well-formed .json files whose startUrl contains the start
\* domain.
Qualifying ==
    {i \in DOMAIN Files :
        /\ Files[i].kind \in {"nostat", "ok"}
        /\ Contains(Files[i].StartURL, opts.StartDomain)}

\* C8 as stated: the token is that of the qualifying file with the greatest
\* modification time, the last enumerated one among several, and an error is
\* returned exactly when no file qualifies or the directory is unreadable.
C8_LatestLastOnTies ==
    TokenReturned =>
        /\ TokenFailed <=> (~cacheDir.ok \/ Qualifying = {})
        /\ ~TokenFailed =>
              /\ token.AccessToken \in Qualifying
              /\ \A i \in Qualifying :
                    /\ Files[i].ModTime <= Files[token.AccessToken].ModTime
                    /\ Files[i].ModTime = Files[token.AccessToken].ModTime
                          => i <= token.AccessToken

\* The files a token can come from: those that qualify, whose time can be
\* read and is a positive number of whole seconds.
Selectable ==
    {i \in Qualifying : Files[i].kind = "ok" /\ Unix(Files[i].ModTime) > 0}

\* C8 amended: the token is that of the selectable file with the greatest
\* modification time in whole seconds, the first enumerated one among
\* several, and an error is returned exactly when no file is selectable or
\* the directory is unreadable.
C8_LatestFirstOnTies ==
    TokenReturned =>
        /\ TokenFailed <=> (~cacheDir.ok \/ Selectable = {})
        /\ ~TokenFailed =>
              /\ token.AccessToken \in Selectable
              /\ token.StartURL = Files[token.AccessToken].StartURL
              /\ \A i \in Selectable :
                    /\ Unix(Files[i].ModTime) <= Unix(Files[token.AccessToken].ModTime)
                    /\ Unix(Files[i].ModTime) = Unix(Files[token.AccessToken].ModTime)
                          => token.AccessToken <= i

\* Two selectable files share the greatest whole second, the later one has
\* the greater time, and the first one was selected.
C8_Witness ==
    /\ pc = "LoadDefaultConfig"
    /\ opts.StartDomain # <<>>
    /\ \E i, j \in Selectable :
          /\ i < j /\ token.AccessToken = i
          /\ Files[i].ModTime < Files[j].ModTime

(***************************************************************************)
(* listSSOAccounts and validateRoleForAccount.                             *)
(*                                                                         *)
(* The remote service holds the account pages and, per account id, the     *)
(* role pages.  A page either fails or carries its list.  The continuation *)
(* token of a page is the position of the next page, 0 (nil) on the last   *)
(* page; a request with token 0 asks for the first page.                   *)
(***************************************************************************)
PageAt(pages, tok) ==
    LET idx == IF tok = 0 THEN 1 ELSE tok
    IN  [err       |-> pages[idx].err,
         list      |-> pages[idx].list,
         NextToken |-> IF idx < Len(pages) THEN idx + 1 ELSE 0]

\* client.ListAccounts and client.ListAccountRoles.
ListAccounts(tok) == PageAt(sso.pages, tok)

ListAccountRoles(accountID, tok) == PageAt(sso.roles[accountID], tok)

InList(x, list) == \E i \in DOMAIN list : list[i] = x

RoleNameEqualFold(roleName, wanted) ==
    roleName = wanted \/ {roleName, wanted} = {"Admin", "admin"}

\* Line 202: the comparison of a role's name with the role-name option.
RoleNameEqual(roleName, wanted) == roleName = wanted

\* validateRoleForAccount, from the request with token tok on.
RECURSIVE ValidateRoleFrom(_, _)
ValidateRoleFrom(accountID, tok) ==
    LET resp == ListAccountRoles(accountID, tok)
    IN  IF resp.err THEN [valid |-> FALSE, err |-> TRUE]
        ELSE IF \E i \in DOMAIN resp.list : RoleNameEqual(resp.list[i], opts.RoleName)
        THEN [valid |-> TRUE, err |-> FALSE]
        ELSE IF resp.NextToken = 0 THEN [valid |-> FALSE, err |-> FALSE]
        ELSE ValidateRoleFrom(accountID, resp.NextToken)

ValidateRoleForAccount(accountID) == ValidateRoleFrom(accountID, 0)

\* Lines 164-178: the accounts of one page that are kept.
RECURSIVE KeepAccounts(_)
KeepAccounts(list) ==
    IF list = <<>> THEN <<>>
    ELSE LET account == Head(list)
             check   == ValidateRoleForAccount(account.AccountId)
         IN  IF opts.RoleName # "" /\ (check.err \/ ~check.valid)
             THEN KeepAccounts(Tail(list))
             ELSE <<account>> \o KeepAccounts(Tail(list))

LastPageAlways(resp) == TRUE

\* Line 180: the page carries no continuation token.
LastPage(resp) == resp.NextToken = 0

\* One round of the loop of listSSOAccounts (lines 155-184): a ListAccounts
\* request, the role checks of its accounts, and the return to main after a
\* failed request or the last page (main, lines 71-75).
listSSOAccounts ==
    /\ pc = "listSSOAccounts"
    /\ requests' = Append(requests, nextToken)
    /\ stages' = IF requests = <<>> THEN Append(stages, "listSSOAccounts") ELSE stages
    /\ LET resp == ListAccounts(nextToken)
       IN  IF resp.err
           THEN /\ accounts' = <<>>
                /\ pc' = ExitOnError(TRUE, "updateAWSConfig")
                /\ UNCHANGED nextToken
           ELSE /\ accounts' = accounts \o KeepAccounts(resp.list)
                /\ IF LastPage(resp)
                   THEN /\ pc' = ExitOnError(FALSE, "updateAWSConfig")
                        /\ UNCHANGED nextToken
                   ELSE /\ pc' = pc
                        /\ nextToken' = resp.NextToken
    /\ UNCHANGED <<opts, cacheDir, token, region, sso, disk, origDisk,
                   saveCalls, derived>>

Acct1 == Account("111", <<"A", " ", "a">>)
Acct2 == Account("222", <<"a", "-", "a">>)

Page(err, list) == [err |-> err, list |-> list]

AccountPages ==
    {Page(TRUE, <<>>)}
    \cup {Page(FALSE, l) : l \in {<<>>, <<Acct1>>, <<Acct2>>, <<Acct1, Acct2>>}}

RolePages ==
    {Page(TRUE, <<>>)}
    \cup {Page(FALSE, l) : l \in {<<>>, <<"admin">>, <<"admin", "Admin">>}}

AllRolePages == SeqsUpTo(RolePages, MaxRolePages) \ {<<>>}

Services ==
    [pages : SeqsUpTo(AccountPages, MaxPages) \ {<<>>},
     roles : [{"111", "222"} -> AllRolePages]]

\* No role page is requested without a role-name option.
ServicesUnfiltered ==
    [pages : SeqsUpTo(AccountPages, MaxPages) \ {<<>>},
     roles : [{"111", "222"} -> {<<Page(FALSE, <<>>)>>}]]

\* Account enumeration on its own.
InitList ==
    /\ pc = "listSSOAccounts"
    /\ stages = <<>>
    /\ \/ /\ opts = [DryRun |-> FALSE, Remove |-> FALSE, RoleName |-> "Admin",
                     StartDomain |-> <<>>, ProfilePrefix |-> <<>>, Region |-> ""]
          /\ sso \in Services
       \/ /\ opts = [DryRun |-> FALSE, Remove |-> FALSE, RoleName |-> "",
                     StartDomain |-> <<>>, ProfilePrefix |-> <<>>, Region |-> ""]
          /\ sso \in ServicesUnfiltered
    /\ cacheDir = NoCache
    /\ token = [AccessToken |-> 1, Region |-> "r1", StartURL |-> Url1]
    /\ region = "r1"
    /\ nextToken = 0
    /\ requests = <<>>
    /\ accounts = <<>>
    /\ disk = NoKeys
    /\ origDisk = disk
    /\ saveCalls = 0
    /\ derived = <<>>

NextList == listSSOAccounts

SpecList == InitList /\ [][NextList]_vars

ListSucceeded == pc = "updateAWSConfig"

RECURSIVE Concat(_)
Concat(lists) == IF lists = <<>> THEN <<>> ELSE Head(lists) \o Concat(Tail(lists))

\* The accounts of all pages of the service, in page order.
AllListed == Concat([i \in DOMAIN sso.pages |-> sso.pages[i].list])

\* The role lookup of the account finds the role: some role page carries the
\* role name exactly, and no page up to it fails.
FindsRole(accountID) ==
    \E k \in DOMAIN sso.roles[accountID] :
        /\ \A h \in 1..k : ~sso.roles[accountID][h].err
        /\ InList(opts.RoleName, sso.roles[accountID][k].list)

\* The role lookup of the account fails before it finds the role.
LookupFails(accountID) ==
    \E k \in DOMAIN sso.roles[accountID] :
        /\ sso.roles[accountID][k].err
        /\ \A h \in 1..(k - 1) : ~InList(opts.RoleName, sso.roles[accountID][h].list)

RECURSIVE SelectFinding(_)
SelectFinding(list) ==
    IF list = <<>> THEN <<>>
    ELSE IF FindsRole(Head(list).AccountId)
    THEN <<Head(list)>> \o SelectFinding(Tail(list))
    ELSE SelectFinding(Tail(list))

\* C6: with a role filter, the result holds exactly the listed accounts whose
\* role lookup finds the role name; an account whose lookup fails first is
\* skipped, and the enumeration goes on to the last page.
C6_FilterByExactRole ==
    (opts.RoleName # "" /\ ListSucceeded) =>
        /\ accounts = SelectFinding(AllListed)
        /\ \A i \in DOMAIN AllListed :
              LookupFails(AllListed[i].AccountId) => ~InList(AllListed[i], accounts)
        /\ Len(requests) = Len(sso.pages)

\* On the first page one account's lookup failed and one account had the role
\* in another case only; an account of the second page was kept, its role
\* found on the second role page.
C6_Witness ==
    /\ opts.RoleName # "" /\ ListSucceeded
    /\ Len(sso.pages) = 2
    /\ sso.pages[1].list = <<Acct1>>
    /\ LookupFails("111")
    /\ sso.pages[2].list = <<Acct2>>
    /\ accounts = <<Acct2>>
    /\ ~InList(opts.RoleName, sso.roles["222"][1].list)
    /\ InList("admin", sso.roles["222"][1].list)

Distinct(list) == \A i, j \in DOMAIN list : list[i] = list[j] => i = j

\* C7: without a role filter, each request passes the token the page before
\* returned, the last request is that of the first page without a token, and
\* the result is the accounts of all pages in page order, each once when the
\* service lists each account once.
C7_AllPagesInOrder ==
    /\ \A i \in DOMAIN requests :
          requests[i] = IF i = 1 THEN 0 ELSE ListAccounts(requests[i - 1]).NextToken
    /\ \A i \in 1..(Len(requests) - 1) :
          ~ListAccounts(requests[i]).err /\ ListAccounts(requests[i]).NextToken # 0
    /\ (opts.RoleName = "" /\ ListSucceeded) =>
          /\ ListAccounts(requests[Len(requests)]).NextToken = 0
          /\ Len(requests) = Len(sso.pages)
          /\ accounts = AllListed
          /\ Distinct(AllListed) =>
                \A i \in DOMAIN AllListed :
                    Cardinality({j \in DOMAIN accounts : accounts[j] = AllListed[i]}) = 1

\* Two pages with one account each were listed without a filter.
C7_Witness ==
    /\ opts.RoleName = "" /\ ListSucceeded
    /\ requests = <<0, 2>>
    /\ sso.pages[1].list = <<Acct2>>
    /\ sso.pages[2].list = <<Acct1>>

(***************************************************************************)
(* Profile-name derivation on its own: an account name is derived, and the *)
(* result is derived again.                                                *)
(***************************************************************************)
InitDerive ==
    /\ pc = "derive"
    /\ stages = <<>>
    /\ opts = [DryRun |-> FALSE, Remove |-> FALSE, RoleName |-> "Admin",
               StartDomain |-> <<>>, ProfilePrefix |-> <<>>, Region |-> ""]
    /\ cacheDir = NoCache
    /\ token = NoToken
    /\ region = ""
    /\ sso = NoService
    /\ nextToken = 0
    /\ requests = <<>>
    /\ accounts = <<>>
    /\ disk = NoKeys
    /\ origDisk = disk
    /\ saveCalls = 0
    /\ derived \in {<<name>> : name \in SeqsUpTo(Alphabet, MaxLen)}

Derive ==
    /\ pc = "derive"
    /\ Len(derived) < 3
    /\ derived' = Append(derived, SanitizeName(derived[Len(derived)]))
    /\ UNCHANGED <<pc, stages, opts, cacheDir, token, region, sso, nextToken,
                   requests, accounts, disk, origDisk, saveCalls>>

NextDerive == Derive

SpecDerive == InitDerive /\ [][NextDerive]_vars

\* C10: deriving the name of a derived name yields the derived name again.
C10_DeriveIdempotent ==
    Len(derived) = 3 => derived[3] = derived[2]

\* A name with an upper-case letter, an inner space and a dropped character
\* was derived twice.
C10_Witness ==
    /\ Len(derived) = 3
    /\ derived[1] = <<"!", " ", "A">>
    /\ derived[2] = <<"-", "a">>

(***************************************************************************)
(* The whole run of main.                                                  *)
(***************************************************************************)
\* main, lines 62-69: config.LoadDefaultConfig succeeds or fails.
LoadDefaultConfig ==
    /\ pc = "LoadDefaultConfig"
    /\ \E err \in BOOLEAN : pc' = ExitOnError(err, "listSSOAccounts")
    /\ stages' = Append(stages, "LoadDefaultConfig")
    /\ UNCHANGED <<opts, cacheDir, token, region, sso, nextToken, requests,
                   accounts, disk, origDisk, saveCalls, derived>>

MainCacheFiles == {CacheFile("ok", Url1, MaxModTime), CacheFile("malformed", Url1, MaxModTime)}

MainServices ==
    [pages : SeqsUpTo(AccountPages, MaxPages) \ {<<>>},
     roles : {[id \in {"111", "222"} |-> <<Page(FALSE, <<"Admin">>)>>],
              [id \in {"111", "222"} |->
                  IF id = "111" THEN <<Page(TRUE, <<>>)>> ELSE <<Page(FALSE, <<"Admin">>)>>]}]

MainConfigFiles ==
    {f \in ConfigFiles : DOMAIN f \subseteq {NameAA} /\ \A n \in DOMAIN f : f[n] = Managed("111")}

Init ==
    /\ pc = "readSSOToken"
    /\ stages = <<>>
    /\ opts \in [DryRun : BOOLEAN, Remove : BOOLEAN, RoleName : {"Admin"},
                 StartDomain : {<<"x">>}, ProfilePrefix : {<<>>},
                 Region : {"", "r1"}]
    /\ cacheDir \in [ok : BOOLEAN, files : SeqsUpTo(MainCacheFiles, 1)]
    /\ token = NoToken
    /\ region = ""
    /\ sso \in MainServices
    /\ nextToken = 0
    /\ requests = <<>>
    /\ accounts = <<>>
    /\ disk \in MainConfigFiles
    /\ origDisk = disk
    /\ saveCalls = 0
    /\ derived = <<>>

Next ==
    \/ readSSOToken
    \/ LoadDefaultConfig
    \/ listSSOAccounts
    \/ updateAWSConfig

Spec == Init /\ [][Next]_vars

StageOrder == <<"readSSOToken", "LoadDefaultConfig", "listSSOAccounts", "updateAWSConfig">>

\* C9: the stages run in order; a run that exits with 1 has left the config
\* file as it was and runs no stage after the failed one, a failed account
\* page discarding the accounts; a run exits with 0 only after all four
\* stages, with a token and every account page listed; no request of an
\* account page is made twice.
C9_StagesInOrderFailFast ==
    /\ stages = SubSeq(StageOrder, 1, Len(stages))
    /\ pc \notin {"exit0", "exit1"} =>
          /\ \/ pc = StageOrder[Len(stages) + 1]
             \/ pc = "listSSOAccounts" /\ Len(stages) = 3 /\ nextToken # 0
          /\ disk = origDisk /\ saveCalls = 0
    /\ pc = "exit1" =>
          /\ disk = origDisk
          /\ Len(stages) < 4 => saveCalls = 0
          /\ Len(stages) = 1 => token = NoToken
          /\ Len(stages) <= 2 => requests = <<>>
          /\ Len(stages) = 3 =>
                accounts = <<>> /\ ListAccounts(requests[Len(requests)]).err
    /\ pc = "exit0" =>
          /\ stages = StageOrder
          /\ token # NoToken
          /\ Len(requests) = Len(sso.pages)
          /\ \A i \in DOMAIN sso.pages : ~sso.pages[i].err
          /\ saveCalls = IF opts.DryRun THEN 0 ELSE 1
    /\ \A i, j \in DOMAIN requests : requests[i] = requests[j] => i = j

\* A run failed on the second account page after the first page had listed an
\* account.
C9_Witness ==
    /\ pc = "exit1"
    /\ stages = <<"readSSOToken", "LoadDefaultConfig", "listSSOAccounts">>
    /\ requests = <<0, 2>>
    /\ sso.pages[1].list = <<Acct2>>
    /\ ~opts.DryRun

====
